---- MODULE Spec2Model ----
(***************************************************************************)
(* Welfare eligibility matching of ds5105119/fellows:                      *)
(* GovWelfareService.get_personal_welfare / get_business_welfare, the      *)
(* dimension predicate builders they compose, and the paginated catalog    *)
(* query of ABaseReadRepository.get_page.                                  *)
(*                                                                         *)
(* SQL expressions are kept as trees (records with a field k) and are      *)
(* evaluated over catalog rows with SQL's three-valued logic.  Python      *)
(* values that may be None are kept as <<>> (None) or <<v>>.               *)
(***************************************************************************)
EXTENDS Integers, Sequences, FiniteSets, TLC

----------------------------------------------------------------------------
(* Bounds of the model *)

\* pages 0..MaxPage are requested
MaxPage == 1
\* page sizes 1..MaxSize are requested
MaxSize == 2
\* number of rows of the catalog
MaxCatalog == 2
\* a probe row has at most this many true flags outside the dimension probed
MaxProbeFlags == 1
\* a business profile has at most this many true flags
MaxProfileFlags == 2
\* the clock runs over the years FirstYear .. FirstYear + MaxYears
MaxYears == 0
\* number of approve_payment calls that can be in progress for the order
MaxCalls == 2

----------------------------------------------------------------------------
(* Python None and SQL NULL *)

None == <<>>
Some(v) == <<v>>
IsNone(o) == o = <<>>
Val(o) == o[1]

\* SQL truth values
SqlTrue == "TRUE"
SqlFalse == "FALSE"
SqlNull == "NULL"
Sql3 == {SqlTrue, SqlFalse, SqlNull}

Not3(a) == IF a = SqlNull THEN SqlNull ELSE IF a = SqlTrue THEN SqlFalse ELSE SqlTrue

\* a AND b AND ... over the values vals[1..n]
And3(vals) ==
    IF \E i \in DOMAIN vals : vals[i] = SqlFalse THEN SqlFalse
    ELSE IF \E i \in DOMAIN vals : vals[i] = SqlNull THEN SqlNull
    ELSE SqlTrue

\* a OR b OR ... over the values vals[1..n]
Or3(vals) ==
    IF \E i \in DOMAIN vals : vals[i] = SqlTrue THEN SqlTrue
    ELSE IF \E i \in DOMAIN vals : vals[i] = SqlNull THEN SqlNull
    ELSE SqlFalse

\* the SQL literal of a Python bool
BoolLit(b) == IF b THEN SqlTrue ELSE SqlFalse

----------------------------------------------------------------------------
(* The catalog schema: GovWelfare *)

AgeColumns == {"JA0110", "JA0111"}
GenderFlags == {"JA0101", "JA0102"}
IncomeFlags == {"JA0201", "JA0202", "JA0203", "JA0204", "JA0205"}
LifeFlags == {"JA0301", "JA0302", "JA0303"}
PrimaryIndustryFlags == {"JA0313", "JA0314", "JA0315", "JA0316"}
AcademicFlags == {"JA0317", "JA0318", "JA0319", "JA0320", "JA0322"}
WorkingFlags == {"JA0326", "JA0327"}
OtherFlags == {"JA0328", "JA0329", "JA0330"}
FamilyFlags == {"JA0401", "JA0402", "JA0403", "JA0404", "JA0410",
                "JA0411", "JA0412", "JA0413", "JA0414"}
BusinessFlags == {"JA1101", "JA1102", "JA1103", "JA1201", "JA1202", "JA1299"}
OrganizationFlags == {"JA2101", "JA2102", "JA2103", "JA2201", "JA2202",
                      "JA2203", "JA2299"}

PersonalFlags == GenderFlags \cup IncomeFlags \cup LifeFlags
                 \cup PrimaryIndustryFlags \cup AcademicFlags
                 \cup WorkingFlags \cup OtherFlags \cup FamilyFlags
BoolFlags == PersonalFlags \cup BusinessFlags \cup OrganizationFlags

\* every JA* attribute of the catalog, the age bounds included
EligibilityColumns == AgeColumns \cup BoolFlags

\* the other mapped columns of GovWelfare
DataColumns == {"id", "created_at", "updated_at", "views", "user_type",
                "service_id", "service_name", "service_summary",
                "service_category", "service_conditions",
                "service_description", "offc_name", "dept_name", "dept_type",
                "dept_code", "apply_period", "apply_method", "apply_url",
                "document", "receiving_agency", "contact", "support_details",
                "support_targets", "support_type", "detail_url", "law"}

Columns == DataColumns \cup EligibilityColumns

\* attributes of the class GovWelfare that are not mapped columns
ClassAttributes == {"__tablename__", "__table_args__"}

\* hasattr(self.repository.model, name)
HasAttr(name) == name \in Columns \cup ClassAttributes

\* The value of column c in row e.  A row keeps its flags in e.ja, the
\* columns the model reads as fields, and every other column as NULL.
Row(e, c) ==
    IF c \in BoolFlags THEN e.ja[c]
    ELSE IF c \in DOMAIN e THEN e[c]
    ELSE None

----------------------------------------------------------------------------
(* SQL expressions, as sqlalchemy builds them *)

PyNone == [k |-> "None"]
PyBool(b) == [k |-> "bool", val |-> b]
PyList(args) == [k |-> "list", args |-> args]

\* column == True / column == False
Eq(col, b) == [k |-> "eq", col |-> col, val |-> b]
\* column <= n, column >= n
Le(col, n) == [k |-> "le", col |-> col, val |-> n]
Ge(col, n) == [k |-> "ge", col |-> col, val |-> n]
\* column.contains(label)
Contains(col, label) == [k |-> "contains", col |-> col, val |-> label]
\* to_tsvector(service_name) || to_tsvector(service_summary) @@ websearch_to_tsquery(keyword)
TsMatch(keyword) == [k |-> "tsmatch", val |-> keyword]
Null_ == [k |-> "null"]
True_ == [k |-> "true"]
False_ == [k |-> "false"]
\* ~clause
Not_(c) == [k |-> "not", arg |-> c]
BooleanClauseList(op, args) == [k |-> op, args |-> args]

\* An argument of and_/or_ as a clause: None is NULL, a bool the constant.
Coerce(c) ==
    IF c.k = "None" THEN Null_
    ELSE IF c.k = "bool" THEN (IF c.val THEN True_ ELSE False_)
    ELSE c

\* the entries of s for which keep holds, in order
RECURSIVE SelectSeqBy(_, _)
SelectSeqBy(s, keep) ==
    IF s = <<>> THEN <<>>
    ELSE IF Head(s).k \in keep THEN <<Head(s)>> \o SelectSeqBy(Tail(s), keep)
    ELSE SelectSeqBy(Tail(s), keep)

\* and_/or_: the constant that decides the connective (skip) replaces the
\* whole list, the neutral constant (continue) is dropped, a single clause is
\* returned as it is.
Connective(op, skip, continue, args) ==
    LET cs == [i \in DOMAIN args |-> Coerce(args[i])]
        kinds == {"eq", "le", "ge", "contains", "tsmatch", "null", "true",
                  "false", "and", "or", "not"}
        rest == SelectSeqBy(cs, kinds \ {continue})
    IN IF \E i \in DOMAIN cs : cs[i].k = skip THEN [k |-> skip]
       ELSE IF rest = <<>> /\ cs # <<>> THEN [k |-> continue]
       ELSE IF Len(rest) = 1 THEN rest[1]
       ELSE BooleanClauseList(op, rest)

and_(args) == Connective("and", "false", "true", args)
or_(args) == Connective("or", "true", "false", args)

\* The value of a clause on row e, in SQL's three-valued logic.
RECURSIVE Eval(_, _)
Eval(c, e) ==
    CASE c.k = "true" -> SqlTrue
      [] c.k = "false" -> SqlFalse
      [] c.k = "null" -> SqlNull
      [] c.k = "eq" ->
            IF Row(e, c.col) = SqlNull THEN SqlNull
            ELSE BoolLit(Row(e, c.col) = BoolLit(c.val))
      [] c.k = "le" ->
            IF IsNone(Row(e, c.col)) THEN SqlNull
            ELSE BoolLit(Val(Row(e, c.col)) <= c.val)
      [] c.k = "ge" ->
            IF IsNone(Row(e, c.col)) THEN SqlNull
            ELSE BoolLit(Val(Row(e, c.col)) >= c.val)
      [] c.k = "contains" ->
            IF IsNone(Row(e, c.col)) THEN SqlNull
            ELSE BoolLit(c.val \in Val(Row(e, c.col)))
      [] c.k = "tsmatch" ->
            IF IsNone(e.service_name) \/ IsNone(e.service_summary) THEN SqlNull
            ELSE BoolLit(c.val \in Val(e.service_name) \cup Val(e.service_summary))
      [] c.k = "not" -> Not3(Eval(c.arg, e))
      [] c.k = "and" -> And3([i \in DOMAIN c.args |-> Eval(c.args[i], e)])
      [] c.k = "or" -> Or3([i \in DOMAIN c.args |-> Eval(c.args[i], e)])

\* bool(filters): None and the empty list are false, a list with clauses is
\* true, a clause list built by and_/or_ has no truth value (TypeError).
Truth(filters) ==
    CASE filters.k = "None" -> "false"
      [] filters.k = "list" -> IF filters.args = <<>> THEN "false" ELSE "true"
      [] filters.k \in {"and", "or", "not", "le", "ge", "contains", "tsmatch",
                        "null", "true", "false"} -> "TypeError"
      [] filters.k = "eq" -> "false"

----------------------------------------------------------------------------
(* The requester: User, UserData, UserBusinessData *)

Date(y, m, d) == [year |-> y, month |-> m, day |-> d]

\* (m1, d1) < (m2, d2), as Python compares tuples
TupleLess(m1, d1, m2, d2) == m1 < m2 \/ (m1 = m2 /\ d1 < d2)

\* Python ints and enum members, as keys of a dict
PyInt(n) == [type |-> "int", value |-> n]
EnumMember(n) == [type |-> "AcademicStatus", value |-> n]

AcademicStatus ==
    [none |-> EnumMember(0), elementary_stu |-> EnumMember(1),
     middle_stu |-> EnumMember(2), high_stu |-> EnumMember(3),
     university_stu |-> EnumMember(4)]

\* mapping.get(key) on a dict given as <<key, value>> pairs
DictGet(mapping, key) ==
    IF \E i \in DOMAIN mapping : mapping[i][1] = key
    THEN Some(mapping[CHOOSE i \in DOMAIN mapping : mapping[i][1] = key][2])
    ELSE None

----------------------------------------------------------------------------
(* Dimension predicate builders of GovWelfareService *)

\* _user_data_filter: the branch taken depends on whether the profile's
\* status is a key of status_mapping.
_user_data_filter(user_data, status_mapping, primary_status_field, filter_on_exist, filter_on_empty) ==
    IF IsNone(user_data) THEN PyNone
    ELSE LET primary_column == DictGet(status_mapping, primary_status_field)
             all(b) == [i \in DOMAIN status_mapping |-> Eq(status_mapping[i][2], b)]
         IN IF ~IsNone(primary_column)
            THEN or_(<<Eq(Val(primary_column), TRUE), and_(all(FALSE))>>
                     \o filter_on_exist)
            ELSE or_(<<and_(all(TRUE)), and_(all(FALSE))>> \o filter_on_empty)

\* _type_filter
_type_filter(type) ==
    IF type = "user"
    THEN or_(<<Contains("user_type", "individual"),
               Contains("user_type", "household")>>)
    ELSE or_(<<Contains("user_type", "corporation"),
               Contains("user_type", "facility"),
               Contains("user_type", "organization"),
               Contains("user_type", "small_business")>>)

\* the age in full years that _age_filter computes
Age(birthdate, today) ==
    IF TupleLess(today.month, today.day, birthdate.month, birthdate.day)
    THEN today.year - birthdate.year - 1
    ELSE today.year - birthdate.year

\* _age_filter: "JA0110 is None" is a Python identity test on the column
\* attribute, which is False.
_age_filter(user, today) ==
    IF IsNone(user.birthdate) THEN PyNone
    ELSE LET age == Age(Val(user.birthdate), today)
         IN and_(<<or_(<<Le("JA0110", age), PyBool(FALSE)>>),
                   or_(<<Ge("JA0111", age), PyBool(FALSE)>>)>>)

\* a gender filter without the "no restriction" case: every value other than
\* male is treated as female
_gender_filter_binary(user) ==
    IF Val(user.gender) = "male" THEN Eq("JA0101", TRUE) ELSE Eq("JA0102", TRUE)

\* a gender filter that also passes the rows without a gender flag
_gender_filter_inclusive(user) ==
    IF IsNone(user.gender) THEN PyNone
    ELSE IF Val(user.gender) \in {"male", "female"}
    THEN or_(<<Eq(IF Val(user.gender) = "male" THEN "JA0101" ELSE "JA0102", TRUE),
               and_(<<Eq("JA0101", FALSE), Eq("JA0102", FALSE)>>)>>)
    ELSE PyNone

\* _gender_filter
_gender_filter(user) ==
    IF IsNone(user.gender) THEN PyNone
    ELSE IF Val(user.gender) = "male" THEN Eq("JA0101", TRUE)
    ELSE IF Val(user.gender) = "female" THEN Eq("JA0102", TRUE)
    ELSE PyNone

\* the per-household-size table of _overcome_filter and its extrapolation
HouseholdThreshold(household_size) ==
    LET table == <<2392013, 3932658, 5025253, 6097773, 7108192, 8064805,
                   8988428>>
    IN IF household_size \in DOMAIN table THEN table[household_size]
       ELSE 8988428 + 923623 * (household_size - 7)

\* the (threshold, condition) pairs of _overcome_filter; a threshold is
\* num/den, or float("inf")
OvercomeBrackets ==
    <<[num |-> 1, den |-> 2, inf |-> FALSE, flag |-> "JA0201"],
      [num |-> 3, den |-> 4, inf |-> FALSE, flag |-> "JA0202"],
      [num |-> 1, den |-> 1, inf |-> FALSE, flag |-> "JA0203"],
      [num |-> 2, den |-> 1, inf |-> FALSE, flag |-> "JA0204"],
      [num |-> 0, den |-> 1, inf |-> TRUE, flag |-> "JA0205"]>>

\* x <= threshold
LeqThreshold(x, b) == b.inf \/ x * b.den <= b.num

\* The local overcome_ratio of _overcome_filter: the value looked up for the
\* household size (the reported income is not read).
OvercomeRatio(ud) == HouseholdThreshold(Val(ud.household_size))

\* a selection that reads the reported income and is not monotone in it
SelectedBracketByIncome(ud) == IF Val(ud.overcome) < 1500000 THEN 5 ELSE 1

\* the index of the pair the loop of _overcome_filter returns at
SelectedBracket(ud) ==
    CHOOSE i \in DOMAIN OvercomeBrackets :
        /\ LeqThreshold(OvercomeRatio(ud), OvercomeBrackets[i])
        /\ \A j \in 1..(i - 1) : ~LeqThreshold(OvercomeRatio(ud), OvercomeBrackets[j])

\* an income filter that takes every bracket up to the selected one
_overcome_filter_cumulative(user_data) ==
    IF IsNone(user_data) THEN PyNone
    ELSE IF IsNone(Val(user_data).overcome) \/ IsNone(Val(user_data).household_size)
    THEN PyNone
    ELSE or_(<<and_(<<Eq("JA0201", FALSE), Eq("JA0202", FALSE),
                      Eq("JA0203", FALSE), Eq("JA0204", FALSE),
                      Eq("JA0205", FALSE)>>)>>
             \o [i \in 1..SelectedBracket(Val(user_data)) |->
                    Eq(OvercomeBrackets[i].flag, TRUE)])

\* _overcome_filter
_overcome_filter(user_data) ==
    IF IsNone(user_data) THEN PyNone
    ELSE IF IsNone(Val(user_data).overcome) \/ IsNone(Val(user_data).household_size)
    THEN PyNone
    ELSE LET default_filter ==
                 and_(<<Eq("JA0201", FALSE), Eq("JA0202", FALSE),
                        Eq("JA0203", FALSE), Eq("JA0204", FALSE),
                        Eq("JA0205", FALSE)>>)
             condition == Eq(OvercomeBrackets[SelectedBracket(Val(user_data))].flag, TRUE)
         IN or_(<<default_filter, condition>>)

\* _family_status_filter
_family_status_filter(user_data) ==
    IF IsNone(user_data) THEN PyNone
    ELSE LET ud == Val(user_data)
         IN or_(<<Eq("JA0401", ud.multicultural),
                  Eq("JA0402", ud.north_korean),
                  Eq("JA0403", ud.single_parent_or_grandparent),
                  IF ud.household_size = Some(1) THEN Eq("JA0404", TRUE) ELSE PyNone,
                  Eq("JA0410", TRUE),
                  Eq("JA0411", ud.multi_child_family),
                  Eq("JA0412", ud.homeless),
                  Eq("JA0413", ud.new_resident),
                  Eq("JA0414", ud.extend_family),
                  and_(<<Eq("JA0401", FALSE), Eq("JA0402", FALSE),
                         Eq("JA0403", FALSE), Eq("JA0404", FALSE),
                         Eq("JA0410", FALSE), Eq("JA0411", FALSE),
                         Eq("JA0412", FALSE), Eq("JA0413", FALSE),
                         Eq("JA0414", FALSE)>>)>>)

\* _other_status_filter
_other_status_filter(user_data) ==
    IF IsNone(user_data) THEN PyNone
    ELSE LET ud == Val(user_data)
         IN or_(<<Eq("JA0328", ud.disable), Eq("JA0329", ud.veteran),
                  Eq("JA0330", ud.disease)>>)

\* a life-stage filter that names only the attributes the profile has: for
\* a profile without any of them the disjunction is empty
_life_status_filter_true_only(user_data) ==
    IF IsNone(user_data) THEN PyNone
    ELSE LET ud == Val(user_data)
         IN or_((IF ud.prospective_parents_or_infertility
                 THEN <<Eq("JA0301", TRUE)>> ELSE <<>>)
                \o (IF ud.pregnant THEN <<Eq("JA0302", TRUE)>> ELSE <<>>)
                \o (IF ud.childbirth_or_adoption
                    THEN <<Eq("JA0303", TRUE)>> ELSE <<>>))

\* _life_status_filter
_life_status_filter(user_data) ==
    IF IsNone(user_data) THEN PyNone
    ELSE LET ud == Val(user_data)
         IN or_(<<Eq("JA0301", ud.prospective_parents_or_infertility),
                  Eq("JA0302", ud.pregnant),
                  Eq("JA0303", ud.childbirth_or_adoption)>>)

\* _primary_industry_status_filter
_primary_industry_status_filter(user_data) ==
    IF IsNone(user_data) THEN PyNone
    ELSE LET ud == Val(user_data)
         IN or_(<<Eq("JA0313", ud.farmers), Eq("JA0314", ud.fishermen),
                  Eq("JA0315", ud.livestock_farmers),
                  Eq("JA0316", ud.forestry_workers)>>)

\* _academic_status_filter: the keys of status_mapping are members of
\* AcademicStatus, user_data.academic_status is the stored integer.
_academic_status_filter(user_data) ==
    IF IsNone(user_data) THEN PyNone
    ELSE LET status_mapping ==
                 <<<<AcademicStatus.elementary_stu, "JA0317">>,
                   <<AcademicStatus.middle_stu, "JA0318">>,
                   <<AcademicStatus.high_stu, "JA0319">>,
                   <<AcademicStatus.university_stu, "JA0320">>>>
         IN _user_data_filter(user_data, status_mapping,
                              Val(user_data).academic_status,
                              <<Eq("JA0322", TRUE)>>, <<Eq("JA0322", TRUE)>>)

\* the clauses of cs that are not None, in order
RECURSIVE NotNone(_)
NotNone(cs) ==
    IF cs = <<>> THEN <<>>
    ELSE IF Head(cs).k = "None" THEN NotNone(Tail(cs))
    ELSE <<Head(cs)>> \o NotNone(Tail(cs))

\* a composition that puts every predicate in one disjunction
PersonalFiltersAnyOf(user, user_data, today) ==
    or_(NotNone(<<_family_status_filter(user_data),
                  _life_status_filter(user_data),
                  _other_status_filter(user_data),
                  _primary_industry_status_filter(user_data),
                  _academic_status_filter(user_data),
                  _overcome_filter(user_data),
                  _gender_filter(user),
                  _age_filter(user, today)>>))

\* lines 209-230 of get_personal_welfare: the demographic filter of a
\* loaded profile
PersonalFilters(user, user_data, today) ==
    LET or_conditions ==
            NotNone(<<_family_status_filter(user_data),
                      _life_status_filter(user_data),
                      _other_status_filter(user_data),
                      _primary_industry_status_filter(user_data)>>)
        and_conditions ==
            NotNone(<<_academic_status_filter(user_data),
                      _overcome_filter(user_data),
                      _gender_filter(user),
                      _age_filter(user, today)>>)
    IN IF or_conditions # <<>>
       THEN and_(<<or_(or_conditions)>> \o and_conditions)
       ELSE and_(and_conditions)

----------------------------------------------------------------------------
(* get_business_welfare: the group-requirement filter *)

\* the JA* columns of UserBusinessData
BusinessProfileFlags == {"JA1101", "JA1102", "JA1103", "JA1201", "JA1202",
                         "JA1299", "JA2101", "JA2102", "JA2103", "JA2201",
                         "JA2202", "JA2203", "JA2299"}

\* condition_groups, each group's codes in a fixed order
condition_groups ==
    <<[name |-> "status", codes |-> <<"JA1101", "JA1102", "JA1103">>],
      [name |-> "industry",
       codes |-> <<"JA1201", "JA1202", "JA1299", "JA2201", "JA2202",
                   "JA2203", "JA2299">>],
      [name |-> "org_type", codes |-> <<"JA2101", "JA2102", "JA2103">>]>>

\* user_true_ja_attributes
UserTrueJaAttributes(business_data) ==
    {name \in BusinessProfileFlags : business_data[name]}

\* a group check that also passes every row when the profile has no true
\* flag in the group
GroupCheckOrNoUserFlag(group_codes, user_true_ja_attributes) ==
    LET service_requires_group ==
            or_([i \in DOMAIN group_codes |-> Eq(group_codes[i], TRUE)])
        user_matches_group_requirement ==
            or_([i \in DOMAIN group_codes |->
                    and_(<<Eq(group_codes[i], TRUE),
                           PyBool(group_codes[i] \in user_true_ja_attributes)>>)])
    IN or_(<<Not_(service_requires_group), user_matches_group_requirement,
             PyBool(\A i \in DOMAIN group_codes :
                        group_codes[i] \notin user_true_ja_attributes)>>)

\* group_check_clause of one group
GroupCheckClause(group_codes, user_true_ja_attributes) ==
    LET service_requires_group ==
            or_([i \in DOMAIN group_codes |-> Eq(group_codes[i], TRUE)])
        user_matches_group_requirement ==
            or_([i \in DOMAIN group_codes |->
                    and_(<<Eq(group_codes[i], TRUE),
                           PyBool(group_codes[i] \in user_true_ja_attributes)>>)])
    IN or_(<<Not_(service_requires_group), user_matches_group_requirement>>)

\* a specific_filter built for every loaded profile, also one without a true
\* flag
SpecificFilterOfEveryProfile(business_data) ==
    IF IsNone(business_data) THEN PyNone
    ELSE and_([g \in DOMAIN condition_groups |->
                 GroupCheckClause(condition_groups[g].codes,
                                  UserTrueJaAttributes(Val(business_data)))])

\* lines 325-359 of get_business_welfare: specific_filter
SpecificFilter(business_data) ==
    IF IsNone(business_data) THEN PyNone
    ELSE IF UserTrueJaAttributes(Val(business_data)) = {} THEN PyNone
    ELSE and_([g \in DOMAIN condition_groups |->
                 GroupCheckClause(condition_groups[g].codes,
                                  UserTrueJaAttributes(Val(business_data)))])

\* lines 309-319 of get_business_welfare: the tag, keyword and type filters
BasicBusinessFilters(tag, keyword) ==
    PyList((IF IsNone(tag) THEN <<>> ELSE <<Contains("support_type", Val(tag))>>)
           \o (IF IsNone(keyword) THEN <<>> ELSE <<TsMatch(Val(keyword))>>)
           \o <<_type_filter("business")>>)

\* the projections the two handlers ask for
PersonalColumns ==
    {"id", "views", "service_id", "service_name", "service_summary",
     "service_category", "service_conditions", "service_description",
     "apply_period", "apply_url", "detail_url", "document",
     "receiving_agency", "offc_name", "contact", "support_details"}

BusinessColumns ==
    PersonalColumns \cup {"dept_name", "dept_type", "support_targets"}

----------------------------------------------------------------------------
(* ABaseReadRepository.get_page over the catalog *)

\* the WHERE clause of get: no clause for a false filters, the conjunction
\* of the list's clauses otherwise
Where(filters, e) ==
    IF Truth(filters) = "false" THEN TRUE
    ELSE \A i \in DOMAIN filters.args : Eval(filters.args[i], e) = SqlTrue

\* the rows of cat the WHERE clause keeps
Matching(cat, filters) == {i \in DOMAIN cat : Where(filters, cat[i])}

\* ORDER BY col ASC puts a before b: NULL sorts as the largest value, last
AscBefore(a, b, col) ==
    \/ IsNone(Row(b, col))
    \/ (~IsNone(Row(a, col)) /\ Val(Row(a, col)) <= Val(Row(b, col)))

\* ORDER BY col DESC puts a before b (PostgreSQL: NULL sorts as the
\* largest value); rows with equal keys may come in either order.
DescBefore(a, b, col) ==
    \/ IsNone(Row(a, col))
    \/ (~IsNone(Row(b, col)) /\ Val(Row(a, col)) >= Val(Row(b, col)))

\* the value ORDER BY compares: id is not nullable
OrderKeyRow(e) == [e EXCEPT !.id = Some(e.id)]

\* every order in which the database may return the rows rows of cat under
\* ORDER BY col DESC
Orderings(cat, rows, col) ==
    {s \in [1..Cardinality(rows) -> rows] :
        /\ \A i, j \in DOMAIN s : i # j => s[i] # s[j]
        /\ \A i, j \in DOMAIN s :
              i < j => DescBefore(OrderKeyRow(cat[s[i]]), OrderKeyRow(cat[s[j]]), col)}

\* a projection that keeps the eligibility columns as well
ProjectionWithFlags(e, columns) ==
    [c \in columns \cup EligibilityColumns |-> Row(e, c)]

\* with_only_columns(*columns) on a row
Projection(e, columns) == [c \in columns |-> Row(e, c)]

\* a page that starts at offset page instead of page * size
PageOfRowOffset(s, page, size) ==
    [i \in 1..(IF Len(s) - page < 0 THEN 0
               ELSE IF Len(s) - page < size THEN Len(s) - page
               ELSE size) |-> s[page + i]]

\* .offset(page * size).fetch(size) of the ordered rows s
PageOf(s, page, size) ==
    [i \in 1..(IF Len(s) - page * size < 0 THEN 0
               ELSE IF Len(s) - page * size < size THEN Len(s) - page * size
               ELSE size) |-> s[page * size + i]]

\* what a handler hands back: the rows of result.mappings().all(), or the
\* exception that ended the call.  total is None: no count is made.
Ok(items) == [status |-> "ok", error |-> "", total |-> None, items |-> items]

\* a handler that catches the failure of a collaborator and hands back an
\* empty page instead
ErrorAsEmptyPage(name) ==
    IF name = "StorageFailure" THEN Ok(<<>>)
    ELSE [status |-> "error", error |-> name, total |-> None, items |-> <<>>]

Error(name) == [status |-> "error", error |-> name, total |-> None, items |-> <<>>]

\* get_page: every outcome of the paginated query
get_page(cat, page, size, filters, columns, order_col) ==
    IF Truth(filters) = "TypeError" THEN {Error("TypeError")}
    ELSE {Error("StorageFailure")}
         \cup {Ok([i \in DOMAIN PageOf(s, page, size) |->
                     Projection(cat[PageOf(s, page, size)[i]], columns)]) :
               s \in Orderings(cat, Matching(cat, filters), order_col)}

----------------------------------------------------------------------------
(* The state *)

VARIABLES
    catalog,        \* the rows of gov_welfare, in storage order
    user_data_row,  \* the row of user_data with the requester's sub, or None
    business_data_row, \* the row of user_business_data with that sub, or None
    now,            \* datetime.now()
    req,            \* the request being served: type, user, tag, keyword, order_by, page, size
    pc,             \* where the handler of req stands
    user_data,      \* local user_data of get_personal_welfare
    business_data,  \* local business_data of get_business_welfare
    filters,        \* local filters of the handler
    result,         \* what the handler handed back
    reads,          \* profile reads made for req
    queries,        \* catalog queries made for req
    seen,           \* per page, the last rows handed back for this request
    transaction,    \* the row of payment_transactions of the order, or None
    posted,         \* approval requests the gateway has received for the order
    calls           \* per approve_payment call: where it stands, and its locals

\* the state of the payment service
payment_vars == <<transaction, posted, calls>>

vars == <<catalog, user_data_row, business_data_row, now, req, pc, user_data,
          business_data, filters, result, reads, queries, seen, transaction,
          posted, calls>>

NoResult == [status |-> "none", error |-> "", total |-> None, items |-> <<>>]

\* desc(getattr(self.repository.model, data.order_by)) is an ORDER BY
\* expression only for a mapped column
OrderByIsColumn(order_by) == order_by \in Columns

----------------------------------------------------------------------------
(* A request arrives *)

Arrive ==
    /\ UNCHANGED payment_vars
    /\ pc = "idle"
    /\ \E page \in 0..MaxPage : req' = [req EXCEPT !.page = page]
    /\ pc' = "start"
    /\ UNCHANGED <<catalog, user_data_row, business_data_row, now, user_data,
                   business_data, filters, result, reads, queries, seen>>

----------------------------------------------------------------------------
(* get_personal_welfare *)

\* a handler that reads the profile before it checks order_by
PersonalStartAfterRead ==
    /\ UNCHANGED payment_vars
    /\ pc = "start"
    /\ req.type = "personal"
    /\ reads' = IF IsNone(req.user) THEN reads ELSE reads + 1
    /\ user_data' = IF IsNone(req.user) THEN user_data ELSE user_data_row
    /\ IF ~HasAttr(req.order_by)
       THEN /\ result' = Error("HTTPException404")
            /\ pc' = "done"
       ELSE /\ result' = result
            /\ pc' = "personal_query"
    /\ UNCHANGED <<catalog, user_data_row, business_data_row, now, req,
                   business_data, filters, queries, seen>>

\* lines 201-206: the order_by check, then the profile read if there is a user
PersonalStart ==
    /\ UNCHANGED payment_vars
    /\ pc = "start"
    /\ req.type = "personal"
    /\ IF ~HasAttr(req.order_by)
       THEN /\ result' = Error("HTTPException404")
            /\ pc' = "done"
       ELSE /\ result' = result
            /\ pc' = IF IsNone(req.user) THEN "personal_query" ELSE "personal_read"
    /\ UNCHANGED <<catalog, user_data_row, business_data_row, now, req,
                   user_data, business_data, filters, reads, queries, seen>>

\* line 206: await get_user_data(session, sub=user.sub)
PersonalReadProfile ==
    /\ UNCHANGED payment_vars
    /\ pc = "personal_read"
    /\ reads' = reads + 1
    /\ \/ /\ user_data' = user_data_row
          /\ pc' = "personal_query"
          /\ result' = result
       \/ /\ user_data' = user_data
          /\ pc' = "done"
          /\ result' = Error("StorageFailure")
    /\ UNCHANGED <<catalog, user_data_row, business_data_row, now, req,
                   business_data, filters, queries, seen>>

\* a composition that filters by the gender and birthdate of the identity
\* when the requester has no profile row
PersonalComposeByIdentity(user, ud, tag, today) ==
    LET f0 == IF IsNone(user) THEN PyNone
              ELSE IF ~IsNone(ud) THEN PersonalFilters(Val(user), ud, today)
              ELSE and_(NotNone(<<_gender_filter(Val(user)),
                                  _age_filter(Val(user), today)>>))
    IN IF IsNone(tag) THEN [error |-> "", filters |-> f0]
       ELSE IF Truth(f0) = "TypeError" THEN [error |-> "TypeError", filters |-> f0]
       ELSE [error |-> "",
             filters |-> PyList(<<Contains("support_type", Val(tag)),
                                  _type_filter("user")>>)]

\* a composition that adds the tag clause without the type discriminator
PersonalComposeTagOnly(user, ud, tag, today) ==
    LET f0 == IF ~IsNone(user) /\ ~IsNone(ud)
              THEN PersonalFilters(Val(user), ud, today)
              ELSE PyNone
    IN IF IsNone(tag) THEN [error |-> "", filters |-> f0]
       ELSE IF Truth(f0) = "TypeError" THEN [error |-> "TypeError", filters |-> f0]
       ELSE [error |-> "",
             filters |-> PyList(<<Contains("support_type", Val(tag))>>)]

\* lines 208-243: filters as composed before the query, and the TypeError
\* of "if filters:" when filters is a clause
PersonalCompose(user, ud, tag, today) ==
    LET f0 == IF ~IsNone(user) /\ ~IsNone(ud)
              THEN PersonalFilters(Val(user), ud, today)
              ELSE PyNone
    IN IF IsNone(tag) THEN [error |-> "", filters |-> f0]
       ELSE IF Truth(f0) = "TypeError" THEN [error |-> "TypeError", filters |-> f0]
       ELSE IF Truth(f0) = "true"
       THEN [error |-> "",
             filters |-> and_(<<f0, Contains("support_type", Val(tag)),
                                _type_filter("user")>>)]
       ELSE [error |-> "",
             filters |-> PyList(<<Contains("support_type", Val(tag)),
                                  _type_filter("user")>>)]

\* lines 208-271: compose the filters, run the query, hand back the rows
PersonalQuery ==
    /\ UNCHANGED payment_vars
    /\ pc = "personal_query"
    /\ LET c == PersonalCompose(req.user, user_data, req.tag, now)
           outcomes ==
               IF c.error # "" THEN {Error(c.error)}
               ELSE IF ~OrderByIsColumn(req.order_by) THEN {Error("ArgumentError")}
               ELSE get_page(catalog, req.page, req.size, c.filters,
                             PersonalColumns, req.order_by)
       IN /\ filters' = c.filters
          /\ \E out \in outcomes :
                /\ result' = out
                /\ queries' = IF out.status = "ok" \/ out.error = "StorageFailure"
                              THEN queries + 1 ELSE queries
    /\ pc' = "done"
    /\ UNCHANGED <<catalog, user_data_row, business_data_row, now, req,
                   user_data, business_data, reads, seen>>

----------------------------------------------------------------------------
(* get_business_welfare *)

\* lines 279-323: the order_by check, the tag, keyword and type filters,
\* then the profile read if there is a user
BusinessStart ==
    /\ UNCHANGED payment_vars
    /\ pc = "start"
    /\ req.type = "business"
    /\ IF ~HasAttr(req.order_by)
       THEN /\ result' = Error("HTTPException404")
            /\ pc' = "done"
            /\ filters' = filters
       ELSE /\ result' = result
            /\ filters' = BasicBusinessFilters(req.tag, req.keyword)
            /\ pc' = IF IsNone(req.user) THEN "business_query" ELSE "business_read"
    /\ UNCHANGED <<catalog, user_data_row, business_data_row, now, req,
                   user_data, business_data, reads, queries, seen>>

\* line 323: await get_business_data(session, sub=user.sub)
BusinessReadProfile ==
    /\ UNCHANGED payment_vars
    /\ pc = "business_read"
    /\ reads' = reads + 1
    /\ \/ /\ business_data' = business_data_row
          /\ pc' = "business_query"
          /\ result' = result
       \/ /\ business_data' = business_data
          /\ pc' = "done"
          /\ result' = Error("StorageFailure")
    /\ UNCHANGED <<catalog, user_data_row, business_data_row, now, req,
                   user_data, filters, queries, seen>>

\* lines 361-362: filters with the group-requirement filter, if there is one
BusinessCompose(basic, bd) ==
    IF SpecificFilter(bd).k = "None" THEN basic
    ELSE PyList(basic.args \o <<SpecificFilter(bd)>>)

\* lines 325-373: add the group-requirement filter, run the query, hand back
\* the rows
BusinessQuery ==
    /\ UNCHANGED payment_vars
    /\ pc = "business_query"
    /\ LET f == BusinessCompose(filters, business_data)
           outcomes ==
               IF ~OrderByIsColumn(req.order_by) THEN {Error("ArgumentError")}
               ELSE get_page(catalog, req.page, req.size, f, BusinessColumns,
                             req.order_by)
       IN /\ filters' = f
          /\ \E out \in outcomes :
                /\ result' = out
                /\ queries' = IF out.status = "ok" \/ out.error = "StorageFailure"
                              THEN queries + 1 ELSE queries
    /\ pc' = "done"
    /\ UNCHANGED <<catalog, user_data_row, business_data_row, now, req,
                   user_data, business_data, reads, seen>>

----------------------------------------------------------------------------
(* The caller receives the response; time passes between calls *)

\* a response step that also counts a view for every row handed back
ReturnCountingViews ==
    /\ UNCHANGED payment_vars
    /\ pc = "done"
    /\ pc' = "idle"
    /\ catalog' = [i \in DOMAIN catalog |->
                     IF \E k \in DOMAIN result.items : result.items[k].id = catalog[i].id
                     THEN [catalog[i] EXCEPT !.views = Some(1)]
                     ELSE catalog[i]]
    /\ seen' = IF result.status = "ok"
               THEN [seen EXCEPT ![req.page] = Some(result.items)]
               ELSE seen
    /\ req' = [req EXCEPT !.page = 0]
    /\ user_data' = None
    /\ business_data' = None
    /\ filters' = PyNone
    /\ result' = NoResult
    /\ reads' = 0
    /\ queries' = 0
    /\ UNCHANGED <<user_data_row, business_data_row, now>>

Return ==
    /\ UNCHANGED payment_vars
    /\ pc = "done"
    /\ pc' = "idle"
    /\ seen' = IF result.status = "ok"
               THEN [seen EXCEPT ![req.page] = Some(result.items)]
               ELSE seen
    /\ req' = [req EXCEPT !.page = 0]
    /\ user_data' = None
    /\ business_data' = None
    /\ filters' = PyNone
    /\ result' = NoResult
    /\ reads' = 0
    /\ queries' = 0
    /\ UNCHANGED <<catalog, user_data_row, business_data_row, now>>

\* datetime.now() moves on between two calls
Tick ==
    /\ UNCHANGED payment_vars
    /\ pc = "idle"
    /\ \E d \in {14, 15}, y \in 2025..(2025 + MaxYears) :
          /\ \/ y > now.year
             \/ (y = now.year /\ d > now.day)
          /\ now' = Date(y, 6, d)
    /\ UNCHANGED <<catalog, user_data_row, business_data_row, req, pc,
                   user_data, business_data, filters, result, reads, queries,
                   seen>>

Next ==
    \/ Arrive
    \/ PersonalStart
    \/ PersonalReadProfile
    \/ PersonalQuery
    \/ BusinessStart
    \/ BusinessReadProfile
    \/ BusinessQuery
    \/ Return
    \/ Tick

----------------------------------------------------------------------------
(* PaymentService: one order of one site *)

PaymentStatus ==
    [PENDING |-> "pending", PAID |-> "paid", FAILED |-> "failed",
     CANCELLED |-> "cancelled"]

\* the state of the welfare service
welfare_vars == <<catalog, user_data_row, business_data_row, now, req, pc,
                  user_data, business_data, filters, result, reads, queries,
                  seen>>

\* an approve_payment call that has not started: payment_result is the
\* outcome of the post to payment_url, rejected the 404 or 409 of lines 118-123
NoCall == [pc |-> "idle", payment_result |-> None, rejected |-> ""]

\* what the post to payment_url of lines 139-142 can end with: res_cd "0000",
\* another res_cd, an HTTP error status, any other exception
GatewayOutcomes == {"0000", "declined", "HTTPStatusError", "Exception"}

\* start_payment, lines 54-69: the row of the new order is created PENDING;
\* the registration that follows writes kcp_trace_no only
start_payment ==
    /\ IsNone(transaction)
    /\ transaction' = Some([status |-> PaymentStatus.PENDING])
    /\ UNCHANGED <<posted, calls>>
    /\ UNCHANGED welfare_vars

\* approve_payment, lines 118-123: read the row, 404 without one, 409
\* unless its status is PENDING
approve_payment_check(c) ==
    /\ calls[c].pc = "idle"
    /\ calls' = [calls EXCEPT ![c] =
                    IF IsNone(transaction)
                    THEN [NoCall EXCEPT !.pc = "done", !.rejected = "404"]
                    ELSE IF Val(transaction).status # PaymentStatus.PENDING
                    THEN [NoCall EXCEPT !.pc = "done", !.rejected = "409"]
                    ELSE [NoCall EXCEPT !.pc = "checked"]]
    /\ UNCHANGED <<transaction, posted>>
    /\ UNCHANGED welfare_vars

\* approve_payment, lines 126-142: the order is sent to payment_url and the
\* call waits for the reply
approve_payment_post(c) ==
    /\ calls[c].pc = "checked"
    /\ posted' = posted + 1
    /\ \E outcome \in GatewayOutcomes :
          calls' = [calls EXCEPT ![c] = [@ EXCEPT !.pc = "replied",
                                                 !.payment_result = Some(outcome)]]
    /\ UNCHANGED transaction
    /\ UNCHANGED welfare_vars

\* update_by_ordr_idxx: UPDATE ... WHERE site_cd = :site_cd AND ordr_idxx =
\* :ordr_idxx, committed
update_by_ordr_idxx(row, status) ==
    IF IsNone(row) THEN row ELSE Some([Val(row) EXCEPT !.status = status])

\* approve_payment, lines 143-188: the row is updated to PAID for res_cd
\* "0000" and to FAILED for every other outcome
approve_payment_update(c) ==
    /\ calls[c].pc = "replied"
    /\ transaction' = update_by_ordr_idxx(transaction,
                          IF calls[c].payment_result = Some("0000")
                          THEN PaymentStatus.PAID
                          ELSE PaymentStatus.FAILED)
    /\ calls' = [calls EXCEPT ![c] = [@ EXCEPT !.pc = "done"]]
    /\ UNCHANGED posted
    /\ UNCHANGED welfare_vars

\* the caller has the response of the call
approve_payment_return(c) ==
    /\ calls[c].pc = "done"
    /\ calls' = [calls EXCEPT ![c] = NoCall]
    /\ UNCHANGED <<transaction, posted>>
    /\ UNCHANGED welfare_vars

NextPayment ==
    \/ start_payment
    \/ \E c \in 1..MaxCalls : approve_payment_check(c)
    \/ \E c \in 1..MaxCalls : approve_payment_post(c)
    \/ \E c \in 1..MaxCalls : approve_payment_update(c)
    \/ \E c \in 1..MaxCalls : approve_payment_return(c)

----------------------------------------------------------------------------
(* Rows, profiles and requests the model runs over *)

AllFalse == [f \in BoolFlags |-> SqlFalse]

\* a catalog row whose flags in true are TRUE, in null NULL, the rest FALSE
CatalogRow(id, views, user_type, support_type, name, summary, lo, hi, true, null) ==
    [id |-> id, views |-> views, user_type |-> user_type,
     support_type |-> support_type, service_name |-> name,
     service_summary |-> summary, JA0110 |-> lo, JA0111 |-> hi,
     ja |-> [f \in BoolFlags |->
                IF f \in true THEN SqlTrue
                ELSE IF f \in null THEN SqlNull ELSE SqlFalse]]

\* the boolean attributes of UserData the builders read
ProfileAttributes ==
    {"multicultural", "north_korean", "single_parent_or_grandparent",
     "homeless", "new_resident", "multi_child_family", "extend_family",
     "disable", "veteran", "disease", "prospective_parents_or_infertility",
     "pregnant", "childbirth_or_adoption", "farmers", "fishermen",
     "livestock_farmers", "forestry_workers"}

\* a row of user_data
UserData(true, household_size, overcome, academic_status) ==
    [overcome |-> overcome, household_size |-> household_size,
     multicultural |-> "multicultural" \in true,
     north_korean |-> "north_korean" \in true,
     single_parent_or_grandparent |-> "single_parent_or_grandparent" \in true,
     homeless |-> "homeless" \in true,
     new_resident |-> "new_resident" \in true,
     multi_child_family |-> "multi_child_family" \in true,
     extend_family |-> "extend_family" \in true,
     disable |-> "disable" \in true,
     veteran |-> "veteran" \in true,
     disease |-> "disease" \in true,
     prospective_parents_or_infertility |->
         "prospective_parents_or_infertility" \in true,
     pregnant |-> "pregnant" \in true,
     childbirth_or_adoption |-> "childbirth_or_adoption" \in true,
     farmers |-> "farmers" \in true,
     fishermen |-> "fishermen" \in true,
     livestock_farmers |-> "livestock_farmers" \in true,
     forestry_workers |-> "forestry_workers" \in true,
     academic_status |-> PyInt(academic_status)]

\* a row of user_business_data
UserBusinessData(true) == [f \in BusinessProfileFlags |-> f \in true]

\* the authenticated requester
User(gender, birthdate) == [sub |-> "sub", gender |-> gender, birthdate |-> birthdate]

\* the request of get_personal_welfare / get_business_welfare
Request(type, user, tag, keyword, order_by, size) ==
    [type |-> type, user |-> user, tag |-> tag, keyword |-> keyword,
     order_by |-> order_by, page |-> 0, size |-> size]

\* the sets of at most n elements of S
RECURSIVE UpTo(_, _)
UpTo(S, n) ==
    IF n = 0 THEN {{}}
    ELSE UpTo(S, n - 1) \cup {T \cup {x} : T \in UpTo(S, n - 1), x \in S}

\* reported incomes: for a household of one they are 0.42, 0.6, 0.84, 1.25
\* and 2.09 times the tabulated threshold
Incomes == {1000000, 1435208, 2000000, 3000000, 5000000}
HouseholdSizes == {1, 2, 7, 8}

\* catalog rows for the paging runs: kind chooses the texts and flags
PagingRow(id, kind, views) ==
    CASE kind = 1 -> CatalogRow(id, views, Some({"individual"}), Some({"tagA"}),
                                Some({"kw"}), Some({}), None, None, {}, {})
      [] kind = 2 -> CatalogRow(id, views, Some({"individual", "corporation"}),
                                Some({}), Some({}), Some({}), Some(0), Some(64),
                                {"JA0102", "JA0202", "JA0320", "JA1102"}, {})
      [] kind = 3 -> CatalogRow(id, views, Some({"corporation"}), Some({"tagA"}),
                                Some({"kw"}), None, None, None, {"JA1201"}, {})
      [] kind = 4 -> CatalogRow(id, views, Some({"small_business"}),
                                Some({"tagA"}), Some({}), Some({"kw"}), None,
                                None, {}, {"JA2101"})

PagingCatalogs ==
    {[i \in 1..MaxCatalog |-> PagingRow(i, k[i], v[i])] :
        k \in [1..MaxCatalog -> 1..4], v \in [1..MaxCatalog -> {None, Some(1)}]}

\* entry A and entry B of the concrete scenario
ScenarioCatalog ==
    <<CatalogRow(1, Some(1), Some({"individual"}), Some({"tagA"}), Some({}),
                 Some({}), Some(0), Some(64), {"JA0202", "JA0102", "JA0320"}, {}),
      CatalogRow(2, Some(2), Some({"individual"}), Some({"tagA"}), Some({}),
                 Some({}), Some(0), Some(64), {"JA0201"}, {})>>

\* the requester of the concrete scenario: born 1995-06-15, a household of
\* one, an income of 0.6 times the threshold, a university student
ScenarioUser == User(Some("female"), Some(Date(1995, 6, 15)))
ScenarioUserData == UserData({}, Some(1), Some(1435208), 4)

Requesters ==
    {[user |-> None, user_data_row |-> None, business_data_row |-> None],
     [user |-> Some(ScenarioUser), user_data_row |-> None,
      business_data_row |-> None],
     [user |-> Some(ScenarioUser), user_data_row |-> Some(ScenarioUserData),
      business_data_row |-> Some(UserBusinessData({"JA1102"}))]}

Configuration(cat, who, r) ==
    [catalog |-> cat, user_data_row |-> who.user_data_row,
     business_data_row |-> who.business_data_row,
     req |-> Request(r.type, who.user, r.tag, r.keyword, r.order_by, r.size)]

\* paging: catalogs with equal and NULL sort keys, every kind of requester
PagingConfigurations ==
    {Configuration(cat, who, r) :
        cat \in PagingCatalogs, who \in Requesters,
        r \in [type : {"personal", "business"}, tag : {None}, keyword : {None},
               order_by : {"views", "id"}, size : 1..MaxSize]
           \cup [type : {"personal", "business"}, tag : {Some("tagA")},
                 keyword : {Some("kw")}, order_by : {"views", "id"},
                 size : 1..MaxSize]
           \cup [type : {"personal", "business"}, tag : {None},
                 keyword : {Some("kw")}, order_by : {"id"},
                 size : {MaxSize}]}

\* order_by: columns, class attributes that are no columns, unknown names
OrderConfigurations ==
    {Configuration(ScenarioCatalog, who, r) :
        who \in Requesters,
        r \in [type : {"personal", "business"}, tag : {None},
               keyword : {None},
               order_by : {"views", "JA0110", "__table_args__", "bogus"},
               size : {MaxSize}]}

\* the profiles of personal requesters: every gender, household size, income
\* and academic status without further attributes, and the requester of the
\* scenario with up to MaxProfileFlags attributes set
PersonalRequesters ==
    {[user |-> Some(User(gender, Some(Date(1995, 6, 15)))),
      user_data_row |-> Some(UserData({}, hs, oc, ac)),
      business_data_row |-> None] :
        gender \in {Some("male"), Some("female"), Some("other")},
        hs \in {None} \cup {Some(n) : n \in HouseholdSizes},
        oc \in {None} \cup {Some(n) : n \in Incomes},
        ac \in {0, 4}}
    \cup
    {[user |-> Some(ScenarioUser),
      user_data_row |-> Some(UserData(true, Some(1), Some(1435208), ac)),
      business_data_row |-> None] :
        true \in UpTo(ProfileAttributes, MaxProfileFlags), ac \in {0, 4}}
    \cup
    {who \in Requesters : who.business_data_row = None}

\* the business requesters: profiles with up to MaxProfileFlags true flags,
\* the anonymous requester and the requester without a profile row
BusinessRequesters ==
    {[user |-> Some(ScenarioUser), user_data_row |-> None,
      business_data_row |-> Some(UserBusinessData(true))] :
        true \in UpTo(BusinessProfileFlags, MaxProfileFlags)}
    \cup
    {who \in Requesters : who.user_data_row = None}

\* catalog rows for the business runs: all of them carry a business label,
\* kind chooses the flags
BusinessRow(id, kind) ==
    LET row(true, null) ==
            CatalogRow(id, Some(id), Some({"corporation"}), Some({}), Some({}),
                       Some({}), None, None, true, null)
    IN CASE kind = 1 -> row({}, {})
         [] kind = 2 -> row({"JA1201"}, {})
         [] kind = 3 -> row({"JA1102", "JA2201"}, {})
         [] kind = 4 -> row({}, {"JA1101"})
         [] kind = 5 -> row({"JA2101"}, {"JA2102"})

BusinessCatalogs ==
    {[i \in 1..MaxCatalog |-> BusinessRow(i, k[i])] : k \in [1..MaxCatalog -> 1..5]}

EligibilityConfigurations ==
    {Configuration(ScenarioCatalog, who, r) :
        who \in PersonalRequesters,
        r \in [type : {"personal"}, tag : {None, Some("tagA")},
               keyword : {None}, order_by : {"id"}, size : {MaxSize}]}
    \cup
    {Configuration(cat, who, r) :
        cat \in BusinessCatalogs, who \in BusinessRequesters,
        r \in [type : {"business"}, tag : {None}, keyword : {None},
               order_by : {"id"}, size : {MaxSize}]}

InitWith(configurations) ==
    /\ \E cfg \in configurations :
          /\ catalog = cfg.catalog
          /\ user_data_row = cfg.user_data_row
          /\ business_data_row = cfg.business_data_row
          /\ req = cfg.req
    /\ now = Date(2025, 6, 14)
    /\ pc = "idle"
    /\ user_data = None
    /\ business_data = None
    /\ filters = PyNone
    /\ result = NoResult
    /\ reads = 0
    /\ queries = 0
    /\ seen = [p \in 0..MaxPage |-> None]
    /\ transaction = None
    /\ posted = 0
    /\ calls = [c \in 1..MaxCalls |-> NoCall]

Init == InitWith(PagingConfigurations \cup OrderConfigurations)

Spec == Init /\ [][Next]_vars

\* the payment service runs beside a welfare service at rest
InitPayment ==
    InitWith({Configuration(ScenarioCatalog,
                            [user |-> None, user_data_row |-> None,
                             business_data_row |-> None],
                            [type |-> "personal", tag |-> None, keyword |-> None,
                             order_by |-> "id", size |-> MaxSize])})

SpecPayment == InitPayment /\ [][NextPayment]_vars

InitEligibility == InitWith(EligibilityConfigurations)

SpecEligibility == InitEligibility /\ [][Next]_vars

----------------------------------------------------------------------------
(* What the composed filters mean *)

\* row e satisfies the filters a handler composed: every clause of a list,
\* or the one clause, is TRUE on e
Admits(f, e) ==
    CASE f.k = "None" -> TRUE
      [] f.k = "list" -> \A i \in DOMAIN f.args : Eval(f.args[i], e) = SqlTrue
      [] OTHER -> Eval(f, e) = SqlTrue

\* a personal catalog row with the flags of true set, every other flag
\* false, and age bounds that admit every adult of working age
ProbeRow(true) ==
    CatalogRow(0, Some(0), Some({"individual"}), Some({"tagA"}), Some({}),
               Some({}), Some(0), Some(64), true, {})

\* the flags of each flag-valued eligibility dimension
DimensionFlags ==
    [gender |-> GenderFlags, income |-> IncomeFlags, life |-> LifeFlags,
     family |-> FamilyFlags, other |-> OtherFlags,
     primary_industry |-> PrimaryIndustryFlags, academic |-> AcademicFlags]

\* the requester has no value for dimension dim: there is no requester or
\* no profile row, the gender is neither male nor female, the income or the
\* household size is NULL
AbsentDimension(dim, user, ud) ==
    \/ IsNone(user)
    \/ IF dim = "gender" THEN Val(user).gender \notin {Some("male"), Some("female")}
       ELSE IF dim = "income"
       THEN \/ IsNone(ud)
            \/ IsNone(Val(ud).overcome)
            \/ IsNone(Val(ud).household_size)
       ELSE IsNone(ud)

\* get_personal_welfare has composed its filters
PersonalComposed == pc = "done" /\ req.type = "personal" /\ queries + reads > 0

----------------------------------------------------------------------------
(* C1 *)

\* C1: when the requester has no value for a dimension, the filters
\* get_personal_welfare composes do not tell apart a row with every flag of
\* that dimension false and the same row with one flag of it true.
C1_PermissiveDefault ==
    PersonalComposed =>
        \A dim \in DOMAIN DimensionFlags :
            AbsentDimension(dim, req.user, user_data) =>
                \A base \in UpTo(PersonalFlags \ DimensionFlags[dim], MaxProbeFlags) :
                    \A f \in DimensionFlags[dim] :
                        Admits(filters, ProbeRow(base))
                            <=> Admits(filters, ProbeRow(base \cup {f}))

\* a profile is loaded, it has no income, and the filters admit both the
\* all-false row and the row with an income flag
C1_Witness ==
    /\ PersonalComposed
    /\ ~IsNone(user_data)
    /\ IsNone(Val(user_data).overcome)
    /\ filters.k = "and"
    /\ Admits(filters, ProbeRow({}))
    /\ Admits(filters, ProbeRow({"JA0203"}))

----------------------------------------------------------------------------
(* C2 *)

\* the identifiers of the rows handed back
ItemIds(items) == {items[i].id : i \in DOMAIN items}

\* the scenario's requester has asked for the first page of the scenario's
\* catalog, without a tag, and the call has ended
ScenarioServed ==
    /\ PersonalComposed
    /\ catalog = ScenarioCatalog
    /\ req.user = Some(ScenarioUser)
    /\ user_data = Some(ScenarioUserData)
    /\ IsNone(req.tag)
    /\ req.page = 0
    /\ req.size >= Len(catalog)
    /\ result.error # "StorageFailure"

\* C2: in the scenario (household of one, income 0.6 of the threshold,
\* female, university student) the composed filters admit entry A and not
\* entry B, and the call hands back A and not B.
C2_Scenario ==
    ScenarioServed =>
        /\ Admits(filters, ScenarioCatalog[1])
        /\ ~Admits(filters, ScenarioCatalog[2])
        /\ result.status = "ok"
        /\ 1 \in ItemIds(result.items)
        /\ 2 \notin ItemIds(result.items)

----------------------------------------------------------------------------
(* C3, C4 *)

GroupCodes(g) ==
    {condition_groups[g].codes[i] : i \in DOMAIN condition_groups[g].codes}

\* the catalog row an item was projected from
EntryOf(item) == catalog[item.id]

\* for every group: no flag of the group is true on e, or some flag of the
\* group is true on e and on the profile bd
GroupImplication(e, bd) ==
    \A g \in DOMAIN condition_groups :
        \/ \A c \in GroupCodes(g) : e.ja[c] # SqlTrue
        \/ \E c \in GroupCodes(g) : e.ja[c] = SqlTrue /\ bd[c]

\* get_business_welfare has handed back the whole result of its query for a
\* loaded business profile
BusinessServed ==
    /\ pc = "done"
    /\ req.type = "business"
    /\ result.status = "ok"
    /\ ~IsNone(business_data)
    /\ req.page = 0
    /\ req.size >= Len(catalog)

\* C3: for a business profile with at least one true flag, a row that passes
\* the type, tag and keyword filters is handed back if and only if every
\* group is either not required by the row or matched by the profile.
C3_GroupImplication ==
    (BusinessServed /\ UserTrueJaAttributes(Val(business_data)) # {}) =>
        \A i \in DOMAIN catalog :
            Admits(BasicBusinessFilters(req.tag, req.keyword), catalog[i]) =>
                (catalog[i].id \in ItemIds(result.items)
                    <=> GroupImplication(catalog[i], Val(business_data)))

\* C4 as stated: for a business profile with no true flag in a group, no row
\* handed back has a true flag in that group.
C4_EveryProfile ==
    BusinessServed =>
        \A g \in DOMAIN condition_groups :
            (\A c \in GroupCodes(g) : ~Val(business_data)[c]) =>
                \A i \in DOMAIN result.items :
                    \A c \in GroupCodes(g) : EntryOf(result.items[i]).ja[c] # SqlTrue

\* C4 for profiles with a true flag: for a business profile with at least
\* one true flag overall and no true flag in a group, no row handed back has
\* a true flag in that group.
C4_ProfileWithFlag ==
    (BusinessServed /\ UserTrueJaAttributes(Val(business_data)) # {}) =>
        \A g \in DOMAIN condition_groups :
            (\A c \in GroupCodes(g) : ~Val(business_data)[c]) =>
                \A i \in DOMAIN result.items :
                    \A c \in GroupCodes(g) : EntryOf(result.items[i]).ja[c] # SqlTrue

\* a profile whose only true flag is JA1102: the row that requires industry
\* JA1201 is held back, the row without requirements is handed back
C4_Witness ==
    /\ BusinessServed
    /\ UserTrueJaAttributes(Val(business_data)) = {"JA1102"}
    /\ \E i \in DOMAIN catalog :
          /\ catalog[i].ja["JA1201"] = SqlTrue
          /\ catalog[i].id \notin ItemIds(result.items)
    /\ \E i \in DOMAIN result.items :
          \A c \in BusinessProfileFlags : EntryOf(result.items[i]).ja[c] = SqlFalse

----------------------------------------------------------------------------
(* C5 *)

\* C5: a call whose order_by is not a catalog column ends with the 404 of
\* the order_by check, and no call ends because order_by, having passed the
\* check, cannot be sorted by.
C5_OrderByValidated ==
    pc = "done" =>
        /\ req.order_by \notin Columns => result.error = "HTTPException404"
        /\ result.error # "ArgumentError"

----------------------------------------------------------------------------
(* C6, C7, C8, C9 *)

\* a call has handed back rows
Served == pc = "done" /\ result.status = "ok"

\* the rows of the catalog that satisfy the filters of the call
MatchingIds == {catalog[i].id : i \in Matching(catalog, filters)}

\* the pages 0 .. ceil(N / S) - 1 of the call's request
Pages == 0..(((Cardinality(MatchingIds) + req.size - 1) \div req.size) - 1)

\* the rows handed back for page p: by this call, or by the last call of the
\* same request for that page
PageItems(p) == IF p = req.page THEN result.items ELSE Val(seen[p])

\* every page of the request has been handed back
AllPagesServed ==
    /\ Served
    /\ Pages \subseteq 0..MaxPage
    /\ \A p \in Pages \ {req.page} : ~IsNone(seen[p])

\* C6: once every page 0 .. ceil(N / S) - 1 of a request has been handed
\* back, the pages together hold exactly the matching rows and no row is on
\* two pages.
C6_Pagination ==
    AllPagesServed =>
        /\ UNION {ItemIds(PageItems(p)) : p \in Pages} = MatchingIds
        /\ \A p, q \in Pages :
              p # q => ItemIds(PageItems(p)) \cap ItemIds(PageItems(q)) = {}

\* C7: a call of get_personal_welfare hands back the rows the last call
\* with the same arguments handed back, in the same order.
C7_Idempotence ==
    (Served /\ req.type = "personal" /\ ~IsNone(seen[req.page])) =>
        result.items = Val(seen[req.page])

RowsOnPage(n, page, size) ==
    IF n - page * size < 0 THEN 0
    ELSE IF n - page * size < size THEN n - page * size
    ELSE size

C9_NoFlagsReturned ==
    Served =>
        \A i \in DOMAIN result.items :
            /\ DOMAIN result.items[i] \cap EligibilityColumns = {}
            /\ DOMAIN result.items[i] \subseteq DataColumns

\* a row with a true flag and age bounds has been handed back
C9_Witness ==
    /\ Served
    /\ \E i \in DOMAIN result.items :
          /\ \E c \in BoolFlags : EntryOf(result.items[i]).ja[c] = SqlTrue
          /\ ~IsNone(EntryOf(result.items[i]).JA0110)

----------------------------------------------------------------------------
(* C10 *)

\* ceiling a is at most ceiling b
CeilingLeq(a, b) == b.inf \/ (~a.inf /\ a.num * b.den <= b.num * a.den)

\* _overcome_filter has selected a bracket for the loaded profile
BracketSelected ==
    /\ PersonalComposed
    /\ ~IsNone(user_data)
    /\ ~IsNone(Val(user_data).overcome)
    /\ ~IsNone(Val(user_data).household_size)

\* C10: for the loaded profile and every profile of the same household size
\* with a greater income, both incomes below twice the household's
\* threshold, the ceiling selected for the smaller income is at most the
\* ceiling selected for the greater one.
C10_BracketMonotone ==
    BracketSelected =>
        LET ud == Val(user_data)
            limit == 2 * HouseholdThreshold(Val(ud.household_size))
        IN \A income \in Incomes :
              (Val(ud.overcome) < income /\ income < limit) =>
                  CeilingLeq(OvercomeBrackets[SelectedBracket(ud)],
                             OvercomeBrackets[SelectedBracket(
                                 [ud EXCEPT !.overcome = Some(income)])])

\* a household of one with an income of 1000000: the filters carry the
\* clause of the selected bracket, and a greater income below the limit exists
C10_Witness ==
    /\ BracketSelected
    /\ Val(user_data).household_size = Some(1)
    /\ Val(user_data).overcome = Some(1000000)
    /\ _overcome_filter(user_data).k = "or"
    /\ \E i \in DOMAIN filters.args : filters.args[i] = _overcome_filter(user_data)

----------------------------------------------------------------------------
(* C11 *)

\* the boolean attributes of the profile each builder reads
DimensionAttributes ==
    [family |-> {"multicultural", "north_korean",
                 "single_parent_or_grandparent", "multi_child_family",
                 "homeless", "new_resident", "extend_family"},
     life |-> {"prospective_parents_or_infertility", "pregnant",
               "childbirth_or_adoption"},
     other |-> {"disable", "veteran", "disease"},
     primary_industry |-> {"farmers", "fishermen", "livestock_farmers",
                           "forestry_workers"}]

\* the predicate the builder of dimension dim returns
DimensionPredicate(dim, user, ud) ==
    CASE dim = "gender" -> _gender_filter(user)
      [] dim = "income" -> _overcome_filter(ud)
      [] dim = "life" -> _life_status_filter(ud)
      [] dim = "family" -> _family_status_filter(ud)
      [] dim = "other" -> _other_status_filter(ud)
      [] dim = "primary_industry" -> _primary_industry_status_filter(ud)
      [] dim = "academic" -> _academic_status_filter(ud)

\* the profile's record for dimension dim is there and says nothing: every
\* attribute false, the academic status none
AllFalseSubRecord(dim, ud) ==
    IF dim = "academic" THEN ud.academic_status = PyInt(0)
    ELSE \A a \in DimensionAttributes[dim] : ~ud[a]

\* a profile is loaded and get_personal_welfare has composed its filters
ProfileComposed == PersonalComposed /\ ~IsNone(user_data)

\* C11: for a loaded profile whose record for a dimension has every
\* attribute false, the builder of that dimension returns a predicate, not
\* the constant false, and the predicate is TRUE on every row whose flags of
\* that dimension are all false.
C11_NoEmptyExclusion ==
    ProfileComposed =>
        \A dim \in DOMAIN DimensionAttributes \cup {"academic"} :
            AllFalseSubRecord(dim, Val(user_data)) =>
                LET p == DimensionPredicate(dim, Val(req.user), user_data)
                IN /\ p.k \notin {"None", "false"}
                   /\ \A base \in UpTo(PersonalFlags \ DimensionFlags[dim], MaxProbeFlags) :
                         Eval(p, ProbeRow(base)) = SqlTrue

\* a profile with every attribute false and no academic status: the
\* life-stage builder has returned its disjunction
C11_Witness ==
    /\ ProfileComposed
    /\ \A dim \in DOMAIN DimensionAttributes \cup {"academic"} :
          AllFalseSubRecord(dim, Val(user_data))
    /\ _life_status_filter(user_data).k = "or"
    /\ Eval(_life_status_filter(user_data), ProbeRow({})) = SqlTrue
    /\ Eval(_academic_status_filter(user_data), ProbeRow({"JA0101"})) = SqlTrue

----------------------------------------------------------------------------
(* C12 *)

\* get_personal_welfare has ended for a requester who is anonymous or has
\* no row in user_data; order_by is a column and no storage access failed
ProfileUnavailable ==
    /\ pc = "done"
    /\ req.type = "personal"
    /\ IsNone(req.user) \/ IsNone(user_data_row)
    /\ req.order_by \in Columns
    /\ result.error # "StorageFailure"

\* row e passes the tag and type filters of a personal request, which
\* apply only when a tag is given
PassesPersonalTag(e, tag) ==
    \/ IsNone(tag)
    \/ /\ ~IsNone(e.support_type)
       /\ Val(tag) \in Val(e.support_type)
       /\ ~IsNone(e.user_type)
       /\ Val(e.user_type) \cap {"individual", "household"} # {}

\* C12: for an anonymous requester or one without a profile row the call
\* succeeds; a row of the catalog is selected exactly when it passes the tag
\* and type filters, and a row's eligibility flags make no difference.
C12_ProfileUnavailable ==
    ProfileUnavailable =>
        /\ result.status = "ok"
        /\ \A i \in DOMAIN catalog :
              i \in Matching(catalog, filters)
                  <=> PassesPersonalTag(catalog[i], req.tag)
        /\ \A base \in UpTo(PersonalFlags, MaxProbeFlags) :
              Admits(filters, ProbeRow(base)) <=> Admits(filters, ProbeRow({}))

\* an authenticated female requester without a profile row is handed a row
\* that has no gender flag and no age bounds
C12_Witness ==
    /\ ProfileUnavailable
    /\ ~IsNone(req.user)
    /\ reads = 1
    /\ result.status = "ok"
    /\ \E i \in DOMAIN result.items :
          /\ EntryOf(result.items[i]).ja["JA0102"] = SqlFalse
          /\ IsNone(EntryOf(result.items[i]).JA0110)

----------------------------------------------------------------------------
(* C13 *)

\* the keyword occurs in the name or in the summary of row e
MatchesKeyword(e, keyword) ==
    \/ ~IsNone(e.service_name) /\ keyword \in Val(e.service_name)
    \/ ~IsNone(e.service_summary) /\ keyword \in Val(e.service_summary)

\* C13: when a keyword is given, every row handed back by either handler
\* has the keyword in its name or summary.
C13_KeywordFilter ==
    (Served /\ ~IsNone(req.keyword)) =>
        \A i \in DOMAIN result.items :
            MatchesKeyword(EntryOf(result.items[i]), Val(req.keyword))

----------------------------------------------------------------------------
(* C14 *)

\* the row of the catalog behind item i of the result, as ORDER BY sees it
OrderedEntry(i) == OrderKeyRow(EntryOf(result.items[i]))

\* the value of col in a is NULL, or neither value is NULL and that of a is
\* at least that of b
NullOrGreaterFirst(a, b, col) ==
    IF IsNone(Row(a, col)) THEN TRUE
    ELSE IF IsNone(Row(b, col)) THEN FALSE
    ELSE Val(Row(a, col)) >= Val(Row(b, col))

\* C14 as stated: the rows handed back are sorted in the direction the
\* caller asks for.  The request carries no direction, so the same rows
\* answer a caller who asks for ascending and one who asks for descending.
C14_RequestedDirection ==
    Served =>
        \A direction \in {"ascending", "descending"} :
            \A i, j \in DOMAIN result.items :
                i < j =>
                    IF direction = "ascending"
                    THEN AscBefore(OrderedEntry(i), OrderedEntry(j), req.order_by)
                    ELSE NullOrGreaterFirst(OrderedEntry(i), OrderedEntry(j), req.order_by)

\* C14 for the one direction there is: the rows handed back are sorted by
\* the order_by column in descending order, rows with NULL first.
C14_Descending ==
    Served =>
        \A i, j \in DOMAIN result.items :
            i < j => NullOrGreaterFirst(OrderedEntry(i), OrderedEntry(j), req.order_by)

\* two rows with different ids, sorted by id, the greater first; and a row
\* without views before a row with views
C14_Witness ==
    /\ Served
    /\ Len(result.items) = 2
    /\ \/ /\ req.order_by = "id"
          /\ result.items[1].id > result.items[2].id
       \/ /\ req.order_by = "views"
          /\ IsNone(result.items[1].views)
          /\ ~IsNone(result.items[2].views)

----------------------------------------------------------------------------
(* C15 *)

\* the call ended with the failure of the profile read or of the query
StorageFailed == pc = "done" /\ result.error = "StorageFailure"

\* C15: a failure of the profile read or of the catalog query ends the call
\* with that failure and without items; the failed operation was made once
\* and nothing more is read or queried before the caller has the failure; a
\* page is only handed back after a catalog query of this call, and a failed
\* call leaves no rows behind for later calls.
C15_StorageFailure ==
    /\ [](/\ reads <= 1
          /\ queries <= 1
          /\ (result.status = "error" => result.items = <<>>)
          /\ (StorageFailed =>
                /\ result.status = "error"
                /\ reads + queries >= 1
                /\ (queries = 0 => reads = 1))
          /\ (Served => queries = 1 /\ (reads = 0 <=> IsNone(req.user))))
    /\ [][StorageFailed =>
            /\ pc' = "idle"
            /\ seen' = seen
            /\ reads' = 0
            /\ queries' = 0]_vars

\* the catalog query failed after the profile read had succeeded
C15_Witness ==
    /\ StorageFailed
    /\ reads = 1
    /\ queries = 1
    /\ ~IsNone(req.user)

----------------------------------------------------------------------------
(* C16 *)

\* C16: a call whose order_by names a catalog column and whose profile read
\* and catalog query did not fail hands back a page, whoever the requester is
\* and whether or not a tag or a keyword is given.
C16_Totality ==
    (pc = "done" /\ req.order_by \in Columns /\ result.error # "StorageFailure")
        => result.status = "ok"

----------------------------------------------------------------------------
(* C17 *)

\* the profile row the handler of req reads, if it reads one
StoredProfile(row) == IF IsNone(req.user) THEN None ELSE row

\* the filters of the query depend on the request, the clock and the stored
\* profile only
FiltersFromRequest ==
    IF req.type = "personal"
    THEN filters = PersonalCompose(req.user, StoredProfile(user_data_row),
                                   req.tag, now).filters
    ELSE filters = BusinessCompose(BasicBusinessFilters(req.tag, req.keyword),
                                   StoredProfile(business_data_row))

----------------------------------------------------------------------------
(* C18 *)

\* C18: for every dimension and every loaded profile, the predicate of the
\* dimension, when there is one, is TRUE on every catalog row none of whose
\* flags of that dimension is true.
C18_UnevaluatedDimension ==
    ProfileComposed =>
        \A dim \in DOMAIN DimensionFlags :
            LET p == DimensionPredicate(dim, Val(req.user), user_data)
            IN p.k # "None" =>
                  \A base \in UpTo(PersonalFlags \ DimensionFlags[dim], MaxProbeFlags) :
                      Eval(p, ProbeRow(base)) = SqlTrue

----------------------------------------------------------------------------
(* C19 *)

\* reported_income / threshold(household_size) <= ceiling of b
RatioLeqCeiling(ud, b) ==
    b.inf \/ Val(ud.overcome) * b.den
                <= b.num * HouseholdThreshold(Val(ud.household_size))

\* the first bracket, in the order of the ceilings, whose ceiling is at
\* least the ratio of the reported income to the threshold
MinimalQualifyingBracket(ud) ==
    CHOOSE i \in DOMAIN OvercomeBrackets :
        /\ RatioLeqCeiling(ud, OvercomeBrackets[i])
        /\ \A j \in 1..(i - 1) : ~RatioLeqCeiling(ud, OvercomeBrackets[j])

\* C19: the bracket the income builder selects for the loaded profile is the
\* first one whose ceiling is at least reported income / threshold, the
\* threshold being the tabulated or extrapolated value of the household size.
C19_BracketByRatio ==
    BracketSelected =>
        SelectedBracket(Val(user_data)) = MinimalQualifyingBracket(Val(user_data))

----------------------------------------------------------------------------
(* C20 *)

\* the predicates of the AND-group and of the OR-group that are not None
AndGroup ==
    {p \in {_academic_status_filter(user_data), _overcome_filter(user_data),
            _gender_filter(Val(req.user)), _age_filter(Val(req.user), now)} :
        p.k # "None"}

OrGroup ==
    {p \in {_family_status_filter(user_data), _life_status_filter(user_data),
            _other_status_filter(user_data),
            _primary_industry_status_filter(user_data)} :
        p.k # "None"}

\* every gate holds for e, and so does some predicate of a non-empty OR-group
PassesGroups(e) ==
    /\ \A p \in AndGroup : Eval(p, e) = SqlTrue
    /\ OrGroup # {} => \E p \in OrGroup : Eval(p, e) = SqlTrue

\* the demographic predicate composed for the loaded profile: filters before
\* the tag and type clauses are added
DemographicPredicate == PersonalCompose(req.user, user_data, None, now).filters

\* C20: with a loaded profile the demographic predicate is TRUE on a row
\* exactly when every predicate of the AND-group is TRUE on it and, the
\* OR-group not being empty, some predicate of the OR-group is; no row failing
\* a gate is among the rows handed back.
C20_Composition ==
    ProfileComposed =>
        /\ \A base \in UpTo(PersonalFlags, MaxProbeFlags) :
              Eval(DemographicPredicate, ProbeRow(base)) = SqlTrue
                  <=> PassesGroups(ProbeRow(base))
        /\ \A i \in DOMAIN catalog :
              Eval(DemographicPredicate, catalog[i]) = SqlTrue
                  <=> PassesGroups(catalog[i])
        /\ \A i \in DOMAIN result.items : PassesGroups(EntryOf(result.items[i]))

\* a row that some predicate of the OR-group admits and a gate rejects, and a
\* row that passes
C20_Witness ==
    /\ ProfileComposed
    /\ OrGroup # {}
    /\ AndGroup # {}
    /\ \E base \in UpTo(PersonalFlags, MaxProbeFlags) :
          /\ \E p \in OrGroup : Eval(p, ProbeRow(base)) = SqlTrue
          /\ \E p \in AndGroup : Eval(p, ProbeRow(base)) # SqlTrue
          /\ Eval(DemographicPredicate, ProbeRow(base)) # SqlTrue
    /\ \E base \in UpTo(PersonalFlags, MaxProbeFlags) :
          Eval(DemographicPredicate, ProbeRow(base)) = SqlTrue

----------------------------------------------------------------------------
(* C21 *)

\* the profile has the attribute the builders compare with flag: the
\* household of one for JA0404, none for the not-applicable flag JA0410
ProfileHas(ud, flag) ==
    LET attribute ==
            [JA0401 |-> "multicultural", JA0402 |-> "north_korean",
             JA0403 |-> "single_parent_or_grandparent",
             JA0411 |-> "multi_child_family", JA0412 |-> "homeless",
             JA0413 |-> "new_resident", JA0414 |-> "extend_family",
             JA0301 |-> "prospective_parents_or_infertility",
             JA0302 |-> "pregnant", JA0303 |-> "childbirth_or_adoption",
             JA0328 |-> "disable", JA0329 |-> "veteran", JA0330 |-> "disease",
             JA0313 |-> "farmers", JA0314 |-> "fishermen",
             JA0315 |-> "livestock_farmers", JA0316 |-> "forestry_workers"]
    IN IF flag = "JA0404" THEN ud.household_size = Some(1)
       ELSE flag \in DOMAIN attribute /\ ud[attribute[flag]]

\* C21: for family status, life stage, other status and primary-industry
\* status, a row the predicate of the dimension admits has a true flag whose
\* attribute is true on the loaded profile, or the not-applicable flag of the
\* dimension true, or no flag of the dimension true.
C21_TrueFlagsOnly ==
    ProfileComposed =>
        \A dim \in {"family", "life", "other", "primary_industry"} :
            \A base \in UpTo(DimensionFlags[dim], MaxProbeFlags) :
                Eval(DimensionPredicate(dim, Val(req.user), user_data),
                     ProbeRow(base)) = SqlTrue
                    => \/ \E f \in base : ProfileHas(Val(user_data), f)
                       \/ (dim = "family" /\ "JA0410" \in base)
                       \/ base = {}

----------------------------------------------------------------------------
(* C22 *)

\* C22: for the age a of a requester with a birthdate, the age predicate is
\* TRUE on a row exactly when its minimum age is absent or at most a and its
\* maximum age is absent or at least a.
C22_AgeRange ==
    (ProfileComposed /\ ~IsNone(Val(req.user).birthdate)) =>
        LET a == Age(Val(Val(req.user).birthdate), now)
            bounds == {None} \cup {Some(n) : n \in {a - 1, a, a + 1}}
        IN \A lo, hi \in bounds :
              Eval(_age_filter(Val(req.user), now),
                   [ProbeRow({}) EXCEPT !.JA0110 = lo, !.JA0111 = hi]) = SqlTrue
                  <=> /\ (IsNone(lo) \/ Val(lo) <= a)
                      /\ (IsNone(hi) \/ Val(hi) >= a)

----------------------------------------------------------------------------
(* C23 *)

\* C23: for a loaded profile whose academic status is elementary, middle,
\* high or university, the academic predicate is TRUE on a row exactly when
\* the flag of that status is true on it, or JA0317..JA0320 are all false on
\* it, or JA0322 is true on it.
C23_AcademicStatus ==
    (ProfileComposed /\ Val(user_data).academic_status.value \in 1..4) =>
        LET own == <<"JA0317", "JA0318", "JA0319", "JA0320">>[
                       Val(user_data).academic_status.value]
        IN \A base \in UpTo(AcademicFlags, MaxProbeFlags) :
              Eval(_academic_status_filter(user_data), ProbeRow(base)) = SqlTrue
                  <=> \/ own \in base
                      \/ base \cap {"JA0317", "JA0318", "JA0319", "JA0320"} = {}
                      \/ "JA0322" \in base

----------------------------------------------------------------------------
(* C24 *)

\* C24: once a bracket is selected for the loaded profile, the income
\* predicate is TRUE on a row exactly when the flag of the selected bracket
\* is true on it or JA0201..JA0205 are all false on it.
C24_IncomeForm ==
    BracketSelected =>
        LET selected == OvercomeBrackets[SelectedBracket(Val(user_data))].flag
            p == _overcome_filter(user_data)
        IN /\ \A base \in SUBSET IncomeFlags :
                 Eval(p, ProbeRow(base)) = SqlTrue
                     <=> (selected \in base \/ base = {})
           /\ \A i \in DOMAIN catalog :
                 Eval(p, catalog[i]) = SqlTrue
                     <=> \/ catalog[i].ja[selected] = SqlTrue
                         \/ \A f \in IncomeFlags : catalog[i].ja[f] = SqlFalse

\* a row with another bracket's flag true is rejected, a row with the
\* selected flag true is admitted, and the predicate is part of the filters
C24_Witness ==
    /\ BracketSelected
    /\ \E f \in IncomeFlags :
          /\ f # OvercomeBrackets[SelectedBracket(Val(user_data))].flag
          /\ Eval(_overcome_filter(user_data), ProbeRow({f})) = SqlFalse
    /\ Eval(_overcome_filter(user_data),
            ProbeRow({OvercomeBrackets[SelectedBracket(Val(user_data))].flag})) = SqlTrue
    /\ \E i \in DOMAIN filters.args : filters.args[i] = _overcome_filter(user_data)

----------------------------------------------------------------------------
(* C25 *)

\* get_business_welfare has handed back rows for a requester who is
\* anonymous, has no business profile row, or has a row with no true flag
UnknownBusinessProfile ==
    /\ pc = "done"
    /\ req.type = "business"
    /\ result.status = "ok"
    /\ \/ IsNone(req.user)
       \/ IsNone(business_data_row)
       \/ UserTrueJaAttributes(Val(business_data_row)) = {}

\* C25: for such a requester the filters of the query are the type, tag and
\* keyword filters alone; every row handed back passes them, and when the
\* page holds the whole result every row that passes them is handed back,
\* whatever flags of the status, industry and org_type groups it sets.
C25_UnknownBusinessProfile ==
    UnknownBusinessProfile =>
        /\ filters = BasicBusinessFilters(req.tag, req.keyword)
        /\ \A i \in DOMAIN result.items :
              Admits(BasicBusinessFilters(req.tag, req.keyword),
                     EntryOf(result.items[i]))
        /\ (req.page = 0 /\ req.size >= Len(catalog)) =>
              \A i \in DOMAIN catalog :
                  Admits(BasicBusinessFilters(req.tag, req.keyword), catalog[i])
                      => catalog[i].id \in ItemIds(result.items)

\* a loaded profile without a true flag: a row that requires an industry is
\* handed back
C25_Witness ==
    /\ UnknownBusinessProfile
    /\ ~IsNone(business_data)
    /\ \E i \in DOMAIN result.items :
          \E c \in BusinessProfileFlags : EntryOf(result.items[i]).ja[c] = SqlTrue

----------------------------------------------------------------------------
(* C26 *)

\* C26: every row get_personal_welfare hands back for a request with a tag
\* has the tag in support_type and a personal label in user_type; for a
\* request without a tag the filters do not read support_type or user_type.
C26_TagAndType ==
    (pc = "done" /\ req.type = "personal" /\ result.error # "HTTPException404") =>
        IF ~IsNone(req.tag)
        THEN \A i \in DOMAIN result.items :
                 PassesPersonalTag(EntryOf(result.items[i]), req.tag)
        ELSE \A base \in UpTo(PersonalFlags, MaxProbeFlags) :
                 Admits(filters, ProbeRow(base))
                     <=> Admits(filters, [ProbeRow(base) EXCEPT
                                             !.user_type = Some({"corporation"}),
                                             !.support_type = None])

\* a request with a tag: a row is handed back, and a row of the catalog that
\* has the tag but no personal label is held back
C26_Witness ==
    /\ Served
    /\ req.type = "personal"
    /\ ~IsNone(req.tag)
    /\ Len(result.items) > 0
    /\ req.page = 0
    /\ req.size >= Len(catalog)
    /\ \E i \in DOMAIN catalog :
          /\ ~IsNone(catalog[i].support_type)
          /\ Val(req.tag) \in Val(catalog[i].support_type)
          /\ catalog[i].id \notin ItemIds(result.items)

----------------------------------------------------------------------------
(* C27 *)

\* C27: for every loaded profile the income builder returns a predicate, and
\* the predicate is one of the conjuncts of the demographic filter.
C27_IncomeAlwaysPresent ==
    ProfileComposed =>
        /\ _overcome_filter(user_data).k # "None"
        /\ \E i \in DOMAIN DemographicPredicate.args :
              DemographicPredicate.args[i] = _overcome_filter(user_data)

----------------------------------------------------------------------------
(* C28 *)

\* C28: for a male requester the gender predicate is TRUE on a row exactly
\* when JA0101 is true on it, for a female requester exactly when JA0102 is;
\* for any other gender the builder returns None and the gender flags of a
\* row make no difference to the demographic filter.
C28_GenderBuilder ==
    ProfileComposed =>
        LET gender == Val(req.user).gender
            p == _gender_filter(Val(req.user))
        IN \A base \in SUBSET GenderFlags :
              CASE gender = Some("male") ->
                      Eval(p, ProbeRow(base)) = SqlTrue <=> "JA0101" \in base
                [] gender = Some("female") ->
                      Eval(p, ProbeRow(base)) = SqlTrue <=> "JA0102" \in base
                [] OTHER ->
                      /\ p.k = "None"
                      /\ Eval(DemographicPredicate, ProbeRow(base))
                             = Eval(DemographicPredicate, ProbeRow({}))

\* a male requester: the predicate is part of the filters and rejects the
\* row flagged for women only and the row without a gender flag
C28_Witness ==
    /\ ProfileComposed
    /\ Val(req.user).gender = Some("male")
    /\ \E i \in DOMAIN filters.args : filters.args[i] = _gender_filter(Val(req.user))
    /\ Eval(_gender_filter(Val(req.user)), ProbeRow({"JA0102"})) = SqlFalse
    /\ Eval(_gender_filter(Val(req.user)), ProbeRow({})) = SqlFalse

----------------------------------------------------------------------------
(* C29 *)

\* the call was rejected by the order_by check
OrderByRejected == pc = "done" /\ result.error = "HTTPException404"

\* C29: a call rejected by the order_by check has read no profile, made no
\* catalog query and composed no filters, and the rejection is the first
\* step of the handler.
C29_ValidationFirst ==
    /\ [](OrderByRejected =>
            /\ reads = 0
            /\ queries = 0
            /\ IsNone(user_data)
            /\ IsNone(business_data)
            /\ filters = PyNone)
    /\ [][(result'.error = "HTTPException404" /\ result.error # "HTTPException404")
            => pc = "start"]_vars

\* an authenticated requester with a stored profile is rejected
C29_Witness ==
    /\ OrderByRejected
    /\ ~IsNone(req.user)
    /\ ~IsNone(user_data_row)
    /\ ~HasAttr(req.order_by)

----------------------------------------------------------------------------
(* C30 *)

\* C30: the order is sent to the gateway only while the status of its row is
\* PENDING, and once the status is PAID no step changes the row or sends the
\* order again.
C30_SettledOnce ==
    /\ [][posted' # posted =>
            Val(transaction).status = PaymentStatus.PENDING]_vars
    /\ [][(~IsNone(transaction) /\ Val(transaction).status = PaymentStatus.PAID)
            => (transaction' = transaction /\ posted' = posted)]_vars

====
